---- MODULE Spec2Model ----
(***************************************************************************)
(* le-differ: the diff viewer (src/src/diff_viewer.rs), the changed-files  *)
(* sidebar (src/src/changed_files.rs) and the application loop             *)
(* (src/src/main.rs).                                                      *)
(*                                                                         *)
(* Three specifications share the variables below:                         *)
(*   Spec      the DiffViewer component: any sequence of calls of its      *)
(*             public methods (show, invalidate_cache) interleaved with    *)
(*             the steps of the background workers it spawned;             *)
(*   SpecApp   the application: frames of MyApp::update (sidebar and       *)
(*             invalidation, then DiffViewer::show) interleaved with the   *)
(*             workers; SpecAppFair adds the scheduling fairness;          *)
(*   SpecDiff  one run of compute_diff_data, stage by stage, over all      *)
(*             bounded inputs.                                             *)
(*                                                                         *)
(* Strings are sequences of one-character strings, Option<T> is a set      *)
(* with at most one element.                                               *)
(***************************************************************************)
EXTENDS Integers, Sequences, FiniteSets, TLC

VARIABLES
    state,                  \* DiffViewer.state : DiffState
    receiver,               \* DiffViewer.receiver : Option<Receiver<DiffData>>
    workers,                \* the threads spawned by ensure_loading, in spawn order
    chan,                   \* the mpsc channels created by ensure_loading
    repaint,                \* a repaint was requested (ctx.request_repaint) and no frame started since
    shown,                  \* what the last DiffViewer::show call drew
    inval,                  \* history: the last invalidate_cache call
    diff_view_mode,         \* MyApp.diff_view_mode (show's view_mode argument)
    selected_file_idx,      \* MyApp.selected_file_idx
    selected_changed_file,  \* MyApp.selected_changed_file : Option<ChangedFile>
    changed_files_cache,    \* MyApp.changed_files_cache : ChangedFilesCache
    frame,                  \* position and locals of the running MyApp::update
    uiCalls,                \* system calls and channel operations the UI thread has made
    pl,                     \* SpecDiff: the locals of one compute_diff_data run
    cache_calls             \* SpecCache: history, the calls made on the ChangedFilesCache

vars == <<state, receiver, workers, chan, repaint, shown, inval, diff_view_mode,
          selected_file_idx, selected_changed_file, changed_files_cache, frame,
          uiCalls, pl, cache_calls>>

viewerVars == <<state, receiver, workers, chan, repaint, shown, inval, diff_view_mode>>
appVars == <<selected_file_idx, selected_changed_file, changed_files_cache, frame, uiCalls>>

(***************************************************************************)
(* Option, strings, texts                                                  *)
(***************************************************************************)
None == {}
Some(x) == {x}
Unwrap(o) == CHOOSE x \in o : TRUE

NL == "\n"

\* Bounds of the texts the content sources can return.
MaxLines == 2
LineContents == {<<>>, <<"a">>, <<"a", "b">>}

RECURSIVE Concat(_)
Concat(ss) == IF ss = <<>> THEN <<>> ELSE Head(ss) \o Concat(Tail(ss))

SeqsUpTo(S, n) == UNION {[1..k -> S] : k \in 0..n}

\* A text of the given lines; the last line may lack its terminator.
MkText(ls, nl) ==
    Concat([i \in 1..Len(ls) |-> ls[i] \o (IF i < Len(ls) \/ nl THEN <<NL>> ELSE <<>>)])

Texts == {MkText(ls, nl) : ls \in SeqsUpTo(LineContents, MaxLines), nl \in BOOLEAN}

\* Two texts of three lines that differ in the middle line.
TextABC == MkText(<<<<"a">>, <<"b">>, <<"c">>>>, TRUE)
TextAXC == MkText(<<<<"a">>, <<"x">>, <<"c">>>>, TRUE)

\* The texts a content source can hold.
SourceTexts == Texts \cup {TextABC, TextAXC}

(***************************************************************************)
(* The line differ: TextDiff::from_lines, iter_all_changes, compute_diff   *)
(***************************************************************************)
\* similar's DiffableStr::tokenize_lines: a line ends after its "\n", which it keeps.
RECURSIVE tokenize_from(_, _)
tokenize_from(text, cur) ==
    IF text = <<>> THEN (IF cur = <<>> THEN <<>> ELSE <<cur>>)
    ELSE IF Head(text) = NL
         THEN <<Append(cur, NL)>> \o tokenize_from(Tail(text), <<>>)
         ELSE tokenize_from(Tail(text), Append(cur, Head(text)))

tokenize_lines(text) == tokenize_from(text, <<>>)

\* Every edit script turning the lines o into the lines n.
RECURSIVE EditScripts(_, _)
EditScripts(o, n) ==
    (IF o = <<>> /\ n = <<>> THEN {<<>>} ELSE {})
    \cup (IF o # <<>> /\ n # <<>> /\ Head(o) = Head(n)
          THEN {<<"Equal">> \o s : s \in EditScripts(Tail(o), Tail(n))} ELSE {})
    \cup (IF o # <<>> THEN {<<"Delete">> \o s : s \in EditScripts(Tail(o), n)} ELSE {})
    \cup (IF n # <<>> THEN {<<"Insert">> \o s : s \in EditScripts(o, Tail(n))} ELSE {})

Cost(s) == Cardinality({i \in 1..Len(s) : s[i] # "Equal"})

\* A mutation of DeleteFirst: each changed block has its insertions first.
DeleteFirst_inserts_first(s) ==
    \A i \in 1..(Len(s) - 1) : ~(s[i] = "Delete" /\ s[i + 1] = "Insert")

DeleteFirst(s) == \A i \in 1..(Len(s) - 1) : ~(s[i] = "Insert" /\ s[i + 1] = "Delete")

\* A mutation of similar_ops that takes any edit script, shortest or not.
similar_ops_any_script(o, n) == {s \in EditScripts(o, n) : DeleteFirst(s)}

\* What TextDiff::from_lines(old, new).iter_all_changes() can yield as tags: the
\* Myers algorithm gives a shortest edit script, and the Replace hook orders each
\* changed block deletions first.  Which of the shortest scripts it is is left open.
similar_ops(o, n) ==
    LET all == EditScripts(o, n)
        best == CHOOSE c \in {Cost(s) : s \in all} : \A s \in all : c <= Cost(s)
    IN  {s \in all : Cost(s) = best /\ DeleteFirst(s)}

\* iter_all_changes: the tags with the line (of old or of new) each stands for.
RECURSIVE iter_all_changes(_, _, _)
iter_all_changes(o, n, script) ==
    IF script = <<>> THEN <<>>
    ELSE CASE Head(script) = "Equal" ->
                <<[tag |-> "Equal", value |-> Head(o)]>>
                    \o iter_all_changes(Tail(o), Tail(n), Tail(script))
           [] Head(script) = "Delete" ->
                <<[tag |-> "Delete", value |-> Head(o)]>>
                    \o iter_all_changes(Tail(o), n, Tail(script))
           [] OTHER ->
                <<[tag |-> "Insert", value |-> Head(n)]>>
                    \o iter_all_changes(o, Tail(n), Tail(script))

\* str::trim_end_matches('\n')
RECURSIVE trim_end_newlines(_)
trim_end_newlines(s) ==
    IF s # <<>> /\ s[Len(s)] = NL THEN trim_end_newlines(SubSeq(s, 1, Len(s) - 1)) ELSE s

DiffLineRaw(o, n, c, t) ==
    [old_line_num |-> o, new_line_num |-> n, content |-> c, change_type |-> t]

\* A mutation of change_numbers whose Insert arm also takes the old counter.
change_numbers_insert_has_old(tag, old_line_num, new_line_num) ==
    CASE tag = "Delete" ->
            [old_num |-> Some(old_line_num), new_num |-> None,
             old_line_num |-> old_line_num + 1, new_line_num |-> new_line_num]
      [] tag = "Insert" ->
            [old_num |-> Some(old_line_num), new_num |-> Some(new_line_num),
             old_line_num |-> old_line_num, new_line_num |-> new_line_num + 1]
      [] OTHER ->
            [old_num |-> Some(old_line_num), new_num |-> Some(new_line_num),
             old_line_num |-> old_line_num + 1, new_line_num |-> new_line_num + 1]

\* A mutation of change_numbers whose Delete arm does not advance the old counter.
change_numbers_delete_keeps_counter(tag, old_line_num, new_line_num) ==
    CASE tag = "Delete" ->
            [old_num |-> Some(old_line_num), new_num |-> None,
             old_line_num |-> old_line_num, new_line_num |-> new_line_num]
      [] tag = "Insert" ->
            [old_num |-> None, new_num |-> Some(new_line_num),
             old_line_num |-> old_line_num, new_line_num |-> new_line_num + 1]
      [] OTHER ->
            [old_num |-> Some(old_line_num), new_num |-> Some(new_line_num),
             old_line_num |-> old_line_num + 1, new_line_num |-> new_line_num + 1]

\* let (old_num, new_num) = match change.tag() { .. }: the numbers of the line, and
\* the two counters after the arm.
change_numbers(tag, old_line_num, new_line_num) ==
    CASE tag = "Delete" ->
            [old_num |-> Some(old_line_num), new_num |-> None,
             old_line_num |-> old_line_num + 1, new_line_num |-> new_line_num]
      [] tag = "Insert" ->
            [old_num |-> None, new_num |-> Some(new_line_num),
             old_line_num |-> old_line_num, new_line_num |-> new_line_num + 1]
      [] OTHER ->
            [old_num |-> Some(old_line_num), new_num |-> Some(new_line_num),
             old_line_num |-> old_line_num + 1, new_line_num |-> new_line_num + 1]

\* The loop of compute_diff over the changes, with its two counters.
RECURSIVE compute_diff_loop(_, _, _)
compute_diff_loop(changes, old_line_num, new_line_num) ==
    IF changes = <<>> THEN <<>>
    ELSE LET change == Head(changes)
             nums == change_numbers(change.tag, old_line_num, new_line_num)
         IN  <<DiffLineRaw(nums.old_num, nums.new_num, trim_end_newlines(change.value),
                           change.tag)>>
                 \o compute_diff_loop(Tail(changes), nums.old_line_num, nums.new_line_num)

\* compute_diff(old, new), for the edit script the differ chose.
compute_diff(old, new, script) ==
    compute_diff_loop(iter_all_changes(tokenize_lines(old), tokenize_lines(new), script), 1, 1)

DiffScripts(old, new) == similar_ops(tokenize_lines(old), tokenize_lines(new))

(***************************************************************************)
(* The side-by-side splitter                                               *)
(***************************************************************************)
\* The placeholder both Delete and Insert arms push into the other pane.
BlankLine == DiffLineRaw(None, None, <<>>, "Equal")

\* The copy of a line that the arms of the match push.
CopyLine(line) ==
    DiffLineRaw(line.old_line_num, line.new_line_num, line.content, line.change_type)

\* A mutation of split_push whose Delete arm pushes nothing into the new pane.
split_push_drops_placeholder(line, old_lines, new_lines) ==
    CASE line.change_type = "Equal" ->
            <<Append(old_lines, CopyLine(line)), Append(new_lines, CopyLine(line))>>
      [] line.change_type = "Delete" ->
            <<Append(old_lines, CopyLine(line)), new_lines>>
      [] OTHER ->
            <<Append(old_lines, BlankLine), Append(new_lines, CopyLine(line))>>

\* A mutation of split_push whose placeholders keep the tag of the line they stand for.
split_push_tagged_placeholder(line, old_lines, new_lines) ==
    CASE line.change_type = "Equal" ->
            <<Append(old_lines, CopyLine(line)), Append(new_lines, CopyLine(line))>>
      [] line.change_type = "Delete" ->
            <<Append(old_lines, CopyLine(line)),
              Append(new_lines, DiffLineRaw(None, None, <<>>, line.change_type))>>
      [] OTHER ->
            <<Append(old_lines, DiffLineRaw(None, None, <<>>, line.change_type)),
              Append(new_lines, CopyLine(line))>>

\* One iteration of the loop of split_for_side_by_side: the match on change_type.
split_push(line, old_lines, new_lines) ==
    CASE line.change_type = "Equal" ->
            <<Append(old_lines, CopyLine(line)), Append(new_lines, CopyLine(line))>>
      [] line.change_type = "Delete" ->
            <<Append(old_lines, CopyLine(line)), Append(new_lines, BlankLine)>>
      [] OTHER ->
            <<Append(old_lines, BlankLine), Append(new_lines, CopyLine(line))>>

RECURSIVE split_loop(_, _, _)
split_loop(diff_lines, old_lines, new_lines) ==
    IF diff_lines = <<>> THEN <<old_lines, new_lines>>
    ELSE LET pushed == split_push(Head(diff_lines), old_lines, new_lines)
         IN  split_loop(Tail(diff_lines), pushed[1], pushed[2])

\* split_for_side_by_side(diff_lines) = <<old_lines, new_lines>>
split_for_side_by_side(diff_lines) == split_loop(diff_lines, <<>>, <<>>)

(***************************************************************************)
(* The syntax renderer                                                     *)
(***************************************************************************)
Paths == {<<"a", ".", "r", "s">>, <<"n", "o", "t", "e", "s">>, <<"b", ".", "q">>}
FileStatus == {"Added", "Modified", "Deleted", "Renamed"}

\* Path::new(path).extension().and_then(|e| e.to_str()).unwrap_or("")
extension(path) ==
    LET slashes == {i \in 1..Len(path) : path[i] = "/"}
        from == IF slashes = {} THEN 1 ELSE 1 + CHOOSE i \in slashes : \A j \in slashes : j <= i
        name == SubSeq(path, from, Len(path))
        dots == {i \in 2..Len(name) : name[i] = "."}
    IN  IF dots = {} \/ name = <<".", ".">> THEN <<>>
        ELSE SubSeq(name, 1 + (CHOOSE i \in dots : \A j \in dots : j <= i), Len(name))

\* syntax_set.find_syntax_by_extension(extension).unwrap_or_else(find_syntax_plain_text)
KnownExtensions == {<<"r", "s">>}
find_syntax(ext) == IF ext \in KnownExtensions THEN "Rust" ELSE "Plain Text"

ThemeForeground == "foreground"
TokenColor(ch) == IF ch = "a" THEN "keyword" ELSE "identifier"

\* The regions of a successful highlight_line: the plain-text grammar gives the whole
\* line one style, another grammar one region per run of equal characters.
RECURSIVE RunsOf(_, _)
RunsOf(content, acc) ==
    IF content = <<>> THEN acc
    ELSE IF acc # <<>> /\ acc[Len(acc)].text[1] = Head(content)
         THEN RunsOf(Tail(content),
                     [acc EXCEPT ![Len(acc)].text = Append(@, Head(content))])
         ELSE RunsOf(Tail(content),
                     Append(acc, [style |-> TokenColor(Head(content)), text |-> <<Head(content)>>]))

Regions(content, syntax) ==
    IF content = <<>> THEN <<>>
    ELSE IF syntax = "Plain Text" THEN <<[style |-> ThemeForeground, text |-> content]>>
    ELSE RunsOf(content, <<>>)

\* highlighter.highlight_line(&line.content, syntax_set).unwrap_or_default():
\* tokFail holds the line contents on which highlight_line returns Err.
highlight_line_or_default(content, syntax, tokFail) ==
    IF content \in tokFail THEN <<>> ELSE Regions(content, syntax)

RenderedLine(line, spans) ==
    [old_line_num |-> line.old_line_num, new_line_num |-> line.new_line_num,
     spans |-> spans, change_type |-> line.change_type]

RECURSIVE render_lines(_, _, _)
render_lines(lines, syntax, tokFail) ==
    IF lines = <<>> THEN <<>>
    ELSE LET regions == highlight_line_or_default(Head(lines).content, syntax, tokFail)
             spans == [i \in 1..Len(regions) |->
                          [text |-> regions[i].text, color |-> regions[i].style]]
         IN  <<RenderedLine(Head(lines), spans)>> \o render_lines(Tail(lines), syntax, tokFail)

(***************************************************************************)
(* The content resolver                                                    *)
(***************************************************************************)
\* std::fs::read_to_string(path): Err (missing, unreadable, not UTF-8) or the text.
FsOutcomes == {[ok |-> FALSE, text |-> <<>>]} \cup {[ok |-> TRUE, text |-> t] : t \in SourceTexts}

\* Command::new("jj").args(["file","show","-r","@-",path]).output(): the command
\* did not start, or it ended with or without success and wrote stdout.
FailedStdout == {<<>>, <<"a", NL>>}
JjOutcomes ==
    {[spawned |-> FALSE, success |-> FALSE, stdout |-> <<>>]}
    \cup {[spawned |-> TRUE, success |-> FALSE, stdout |-> t] : t \in FailedStdout}
    \cup {[spawned |-> TRUE, success |-> TRUE, stdout |-> t] : t \in SourceTexts}

read_to_string_or_default(fsRead) == IF fsRead.ok THEN fsRead.text ELSE <<>>

\* A mutation of get_jj_file_content that takes the stdout of a failed command.
get_jj_file_content_of_failed_run(jjShow) ==
    IF jjShow.spawned THEN jjShow.stdout ELSE <<>>

get_jj_file_content(jjShow) ==
    IF jjShow.spawned /\ jjShow.success THEN jjShow.stdout ELSE <<>>

\* A mutation of get_file_contents whose Added arm takes the old content from jj.
get_file_contents_added_asks_vcs(status, fsRead, jjShow) ==
    CASE status = "Deleted" -> <<get_jj_file_content(jjShow), <<>>>>
      [] OTHER -> <<get_jj_file_content(jjShow), read_to_string_or_default(fsRead)>>

\* get_file_contents(path, status) = <<old_content, new_content>>, given what the
\* two sources return when asked.
get_file_contents(status, fsRead, jjShow) ==
    CASE status = "Added" -> <<<<>>, read_to_string_or_default(fsRead)>>
      [] status = "Deleted" -> <<get_jj_file_content(jjShow), <<>>>>
      [] OTHER -> <<get_jj_file_content(jjShow), read_to_string_or_default(fsRead)>>

\* The sources get_file_contents asks, in order.
get_file_contents_calls(path, status) ==
    CASE status = "Added" -> <<[call |-> "fs_read", path |-> path]>>
      [] status = "Deleted" -> <<[call |-> "jj_file_show", path |-> path]>>
      [] OTHER -> <<[call |-> "jj_file_show", path |-> path], [call |-> "fs_read", path |-> path]>>

DiffData(path, inline_lines, old_lines, new_lines) ==
    [path |-> path, inline_lines |-> inline_lines, old_lines |-> old_lines,
     new_lines |-> new_lines]

\* The line contents on which the tokenizer may fail.
TokFails == {{}, {<<"a">>}}

(***************************************************************************)
(* compute_diff_data: the results it can return, and its stages one by one *)
(***************************************************************************)
\* What the world outside hands one run: the two sources' answers and the
\* tokenizer's failures.
Externals(fsSet, jjSet, tfSet) ==
    {[fs |-> f, jj |-> j, tokFail |-> t] : f \in fsSet, j \in jjSet, t \in tfSet}

\* compute_diff_data(path, status), for the answers ext and the edit script chosen.
compute_diff_data_with(path, status, ext, script) ==
    LET contents == get_file_contents(status, ext.fs, ext.jj)
        diff_lines == compute_diff(contents[1], contents[2], script)
        syntax == find_syntax(extension(path))
        inline_lines == render_lines(diff_lines, syntax, ext.tokFail)
        split == split_for_side_by_side(diff_lines)
        old_lines == render_lines(split[1], syntax, ext.tokFail)
        new_lines == render_lines(split[2], syntax, ext.tokFail)
    IN  DiffData(path, inline_lines, old_lines, new_lines)

compute_diff_data(path, status, ext) ==
    LET contents == get_file_contents(status, ext.fs, ext.jj)
    IN  {compute_diff_data_with(path, status, ext, script) :
            script \in DiffScripts(contents[1], contents[2])}

\* A mutation of NextStage that splits before it renders the unified sequence.
NextStage_split_first(pc) ==
    CASE pc = "resolve" -> "diff"
      [] pc = "diff" -> "syntax"
      [] pc = "syntax" -> "split"
      [] pc = "split" -> "render_inline"
      [] pc = "render_inline" -> "render_old"
      [] pc = "render_old" -> "render_new"
      [] OTHER -> "done"

\* The order of the statements of compute_diff_data: get_file_contents,
\* compute_diff, the grammar, render_lines of the unified sequence,
\* split_for_side_by_side, render_lines of the old pane and of the new pane.
NextStage(pc) ==
    CASE pc = "resolve" -> "diff"
      [] pc = "diff" -> "syntax"
      [] pc = "syntax" -> "render_inline"
      [] pc = "render_inline" -> "split"
      [] pc = "split" -> "render_old"
      [] pc = "render_old" -> "render_new"
      [] OTHER -> "done"

\* `trace` is history: the stages that have finished, in the order they ran.
PlIdle ==
    [pc |-> "idle", trace |-> <<>>,
     path |-> <<>>, status |-> "Added", tokFail |-> {}, calls |-> <<>>,
     fs |-> [ok |-> FALSE, text |-> <<>>],
     jj |-> [spawned |-> FALSE, success |-> FALSE, stdout |-> <<>>],
     old_content |-> <<>>, new_content |-> <<>>, diff_lines |-> <<>>, syntax |-> "",
     inline_lines |-> <<>>, old_diff |-> <<>>, new_diff |-> <<>>,
     old_lines |-> <<>>, new_lines |-> <<>>, data |-> None]

PlStart(path, status) == [PlIdle EXCEPT !.pc = "resolve", !.path = path, !.status = status]

\* let (old_content, new_content) = get_file_contents(path, status);
PlResolve ==
    /\ pl.pc = "resolve"
    /\ \E ext \in Externals(FsOutcomes, JjOutcomes, TokFails) :
         LET contents == get_file_contents(pl.status, ext.fs, ext.jj)
         IN  pl' = [pl EXCEPT !.pc = NextStage("resolve"), !.trace = Append(@, "resolve"),
                              !.calls = get_file_contents_calls(pl.path, pl.status),
                              !.old_content = contents[1],
                              !.new_content = contents[2],
                              !.fs = ext.fs,
                              !.jj = ext.jj,
                              !.tokFail = ext.tokFail]

\* let diff_lines = compute_diff(&old_content, &new_content);
PlDiff ==
    /\ pl.pc = "diff"
    /\ \E script \in DiffScripts(pl.old_content, pl.new_content) :
         pl' = [pl EXCEPT !.pc = NextStage("diff"), !.trace = Append(@, "diff"),
                          !.diff_lines = compute_diff(pl.old_content, pl.new_content, script)]

\* let extension = ...; let syntax = ...;
PlSyntax ==
    /\ pl.pc = "syntax"
    /\ pl' = [pl EXCEPT !.pc = NextStage("syntax"), !.trace = Append(@, "syntax"),
                        !.syntax = find_syntax(extension(pl.path))]

\* let inline_lines = render_lines(&diff_lines, ...);
PlRenderInline ==
    /\ pl.pc = "render_inline"
    /\ pl' = [pl EXCEPT !.pc = NextStage("render_inline"), !.trace = Append(@, "render_inline"),
                        !.inline_lines = render_lines(pl.diff_lines, pl.syntax, pl.tokFail)]

\* let (old_diff, new_diff) = split_for_side_by_side(&diff_lines);
PlSplit ==
    /\ pl.pc = "split"
    /\ LET split == split_for_side_by_side(pl.diff_lines)
       IN  pl' = [pl EXCEPT !.pc = NextStage("split"), !.trace = Append(@, "split"),
                            !.old_diff = split[1], !.new_diff = split[2]]

\* let old_lines = render_lines(&old_diff, ...);
PlRenderOld ==
    /\ pl.pc = "render_old"
    /\ pl' = [pl EXCEPT !.pc = NextStage("render_old"), !.trace = Append(@, "render_old"),
                        !.old_lines = render_lines(pl.old_diff, pl.syntax, pl.tokFail)]

\* let new_lines = render_lines(&new_diff, ...); DiffData { ... }
PlRenderNew ==
    /\ pl.pc = "render_new"
    /\ LET new_lines == render_lines(pl.new_diff, pl.syntax, pl.tokFail)
       IN  pl' = [pl EXCEPT !.pc = NextStage("render_new"), !.trace = Append(@, "render_new"),
                            !.new_lines = new_lines,
                            !.data = Some(DiffData(pl.path, pl.inline_lines, pl.old_lines,
                                                   new_lines))]

(***************************************************************************)
(* DiffViewer: the state slot, the handoff channels and the workers        *)
(***************************************************************************)
\* The number of workers one behaviour dispatches.
MaxDispatch == 2

PathA == <<"a", ".", "r", "s">>
PathB == <<"n", "o", "t", "e", "s">>
FileA == [path |-> PathA, status |-> "Modified"]
FileB == [path |-> PathB, status |-> "Added"]
Files == {FileA, FileB}

\* What the sources return to the workers of Spec and SpecApp.
WorkerExternals ==
    Externals({[ok |-> FALSE, text |-> <<>>], [ok |-> TRUE, text |-> <<"a", NL>>]},
              {[spawned |-> TRUE, success |-> TRUE, stdout |-> <<"a", "b", NL>>]},
              {{}})

\* enum DiffState; `by` is history: the worker whose result was installed.
Empty == [tag |-> "Empty"]
Loading(path) == [tag |-> "Loading", path |-> path]
Loaded(data, by) == [tag |-> "Loaded", data |-> data, by |-> by]

\* The path a state tracks.
TrackedPath(st) ==
    CASE st.tag = "Loading" -> Some(st.path)
      [] st.tag = "Loaded" -> Some(st.data.path)
      [] OTHER -> None

\* Dropping a Receiver disconnects its channel; what it buffered is lost.
DropReceiver(c, r) ==
    IF r = None THEN c ELSE [c EXCEPT ![Unwrap(r)] = [buf |-> <<>>, rx |-> FALSE]]

\* All senders of a channel are gone: its worker has ended.
SendersGone(ch) ==
    \A w \in 1..Len(workers) : workers[w].ch = ch => workers[w].pc \in {"done", "panicked"}

\* receiver.try_recv()
try_recv(ch) ==
    IF chan[ch].buf # <<>> THEN [ok |-> TRUE, msg |-> Some(Head(chan[ch].buf)), err |-> ""]
    ELSE [ok |-> FALSE, msg |-> None,
          err |-> IF SendersGone(ch) THEN "Disconnected" ELSE "Empty"]

\* The workers that have not yet sent.
InFlight == {w \in 1..Len(workers) : workers[w].sent = "no" /\ workers[w].pc # "panicked"}

\* A mutation of invalidate_cache that clears the receiver and keeps the state.
invalidate_cache_keeps_state ==
    /\ state' = state
    /\ receiver' = None
    /\ chan' = DropReceiver(chan, receiver)
    /\ UNCHANGED workers

\* A mutation of invalidate_cache that empties the state and keeps the receiver.
invalidate_cache_keeps_receiver ==
    /\ state' = Empty
    /\ UNCHANGED <<receiver, chan, workers>>

\* pub fn invalidate_cache(&mut self)
invalidate_cache ==
    /\ state' = Empty
    /\ receiver' = None
    /\ chan' = DropReceiver(chan, receiver)
    /\ UNCHANGED workers

\* The arm of ensure_loading's match that a call with `file` takes.
Branch(file) ==
    IF state.tag = "Loaded" /\ state.data.path = file.path THEN "hit"
    ELSE IF state.tag = "Loading" /\ state.path = file.path
         THEN (IF receiver # None /\ try_recv(Unwrap(receiver)).ok THEN "installed"
               ELSE "pending")
         ELSE "dispatch"

\* A worker as thread::spawn starts it, holding the sender of channel ch.
NewWorker(file, ch) ==
    [path |-> file.path, status |-> file.status, ch |-> ch, pc |-> "compute",
     data |-> None, sent |-> "no", late |-> FALSE]

\* A mutation of Dispatch with one channel for all workers: while a receiver is
\* held, the new worker gets a sender of that receiver's channel.
Dispatch_shared_channel(file) ==
    /\ Len(workers) < MaxDispatch
    /\ state' = Loading(file.path)
    /\ IF receiver = None
       THEN /\ chan' = Append(chan, [buf |-> <<>>, rx |-> TRUE])
            /\ workers' = Append(workers, NewWorker(file, Len(chan) + 1))
            /\ receiver' = Some(Len(chan) + 1)
       ELSE /\ chan' = chan
            /\ workers' = Append(workers, NewWorker(file, Unwrap(receiver)))
            /\ receiver' = receiver

\* A mutation of Dispatch that stores the new receiver only when none is held.
Dispatch_keeps_receiver(file) ==
    /\ Len(workers) < MaxDispatch
    /\ state' = Loading(file.path)
    /\ workers' = Append(workers, NewWorker(file, Len(chan) + 1))
    /\ IF receiver = None
       THEN /\ chan' = Append(chan, [buf |-> <<>>, rx |-> TRUE])
            /\ receiver' = Some(Len(chan) + 1)
       ELSE /\ chan' = Append(chan, [buf |-> <<>>, rx |-> FALSE])
            /\ receiver' = receiver

\* Lines 88-102 of ensure_loading: a new channel, a new thread holding its sender,
\* Loading for the file, and the new receiver in place of the old one.
Dispatch(file) ==
    /\ Len(workers) < MaxDispatch
    /\ chan' = Append(DropReceiver(chan, receiver), [buf |-> <<>>, rx |-> TRUE])
    /\ workers' = Append(workers, NewWorker(file, Len(chan) + 1))
    /\ state' = Loading(file.path)
    /\ receiver' = Some(Len(chan) + 1)

\* A mutation of Poll that installs the result and keeps the receiver.
Poll_keeps_receiver ==
    IF receiver = None THEN UNCHANGED <<state, receiver, workers, chan>>
    ELSE LET got == try_recv(Unwrap(receiver))
         IN  /\ UNCHANGED workers
             /\ IF got.ok
                THEN /\ state' = Loaded(Unwrap(got.msg).data, Unwrap(got.msg).by)
                     /\ receiver' = receiver
                     /\ chan' = [chan EXCEPT ![Unwrap(receiver)].buf = Tail(@)]
                ELSE UNCHANGED <<state, receiver, chan>>

\* Lines 76-84: the poll of the receiver while Loading for the file.
Poll ==
    IF receiver = None THEN UNCHANGED <<state, receiver, workers, chan>>
    ELSE LET got == try_recv(Unwrap(receiver))
         IN  /\ UNCHANGED workers
             /\ IF got.ok
                THEN /\ state' = Loaded(Unwrap(got.msg).data, Unwrap(got.msg).by)
                     /\ receiver' = None
                     /\ chan' = DropReceiver(chan, receiver)
                ELSE UNCHANGED <<state, receiver, chan>>

\* A mutation of ensure_loading whose Loading arm has no path guard.
ensure_loading_ignores_path(file) ==
    IF state.tag = "Loaded" /\ state.data.path = file.path
    THEN UNCHANGED <<state, receiver, workers, chan>>
    ELSE IF state.tag = "Loading"
         THEN Poll
         ELSE Dispatch(file)

\* A mutation of ensure_loading without the Loaded arm.
ensure_loading_no_cache_hit(file) ==
    IF state.tag = "Loading" /\ state.path = file.path
    THEN Poll
    ELSE Dispatch(file)

\* A mutation of ensure_loading that dispatches a replacement worker when the
\* poll finds the channel disconnected.
ensure_loading_redispatches(file) ==
    IF state.tag = "Loaded" /\ state.data.path = file.path
    THEN UNCHANGED <<state, receiver, workers, chan>>
    ELSE IF state.tag = "Loading" /\ state.path = file.path
         THEN (IF receiver # None /\ try_recv(Unwrap(receiver)).err = "Disconnected"
               THEN Dispatch(file)
               ELSE Poll)
         ELSE Dispatch(file)

\* A mutation of ensure_loading whose Loaded arm has no path guard.
ensure_loading_any_loaded(file) ==
    IF state.tag = "Loaded"
    THEN UNCHANGED <<state, receiver, workers, chan>>
    ELSE IF state.tag = "Loading" /\ state.path = file.path
         THEN Poll
         ELSE Dispatch(file)

\* fn ensure_loading(&mut self, file, ctx)
ensure_loading(file) ==
    IF state.tag = "Loaded" /\ state.data.path = file.path
    THEN UNCHANGED <<state, receiver, workers, chan>>
    ELSE IF state.tag = "Loading" /\ state.path = file.path
         THEN Poll
         ELSE Dispatch(file)

\* The calls into the standard library that ensure_loading makes on the calling
\* thread, by the arm it takes.
ensure_loading_calls(file) ==
    CASE Branch(file) = "hit" -> {}
      [] Branch(file) = "dispatch" -> {"channel", "thread_spawn"}
      [] OTHER -> IF receiver = None THEN {} ELSE {"try_recv"}

\* for (old, new) in old_lines.iter().zip(new_lines.iter())
Zip(a, b) ==
    [i \in 1..(IF Len(a) <= Len(b) THEN Len(a) ELSE Len(b)) |-> <<a[i], b[i]>>]

\* What show draws below the separator, for the state ensure_loading left: the
\* spinner, or the lines of the loaded data in the view mode.
Drawn(st, mode) ==
    IF st.tag # "Loaded" THEN [view |-> "spinner", path |-> None, lines |-> <<>>]
    ELSE IF mode = "SideBySide"
         THEN [view |-> "SideBySide", path |-> Some(st.data.path),
               lines |-> Zip(st.data.old_lines, st.data.new_lines)]
         ELSE [view |-> "Inline", path |-> Some(st.data.path),
               lines |-> st.data.inline_lines]

ViewClicks == {"none", "Inline", "SideBySide"}

\* pub fn show(&mut self, ui, file: Option<&ChangedFile>, view_mode); click is the
\* view-mode label clicked in this frame.
show(file, click) ==
    /\ diff_view_mode' = IF click = "none" THEN diff_view_mode ELSE click
    /\ UNCHANGED repaint
    /\ IF file = None
       THEN UNCHANGED <<state, receiver, workers, chan>>
       ELSE ensure_loading(Unwrap(file))

\* What receiver.try_recv() returns to an ensure_loading call with `file`: Ok, or
\* the error; "none" when the call does not poll.
Polled(file) ==
    IF state.tag = "Loading" /\ state.path = file.path /\ receiver # None
    THEN (IF try_recv(Unwrap(receiver)).ok THEN "Ok" ELSE try_recv(Unwrap(receiver)).err)
    ELSE "none"

\* What a show call leaves on the screen: the file in the heading, the arm
\* ensure_loading took, and what is drawn below the separator.
Screen(file, st, mode) ==
    IF file = None
    THEN [file |-> None, branch |-> "none", recv |-> "none", view |-> "no_file",
          path |-> None]
    ELSE [file |-> file, branch |-> Branch(Unwrap(file)), recv |-> Polled(Unwrap(file)),
          view |-> Drawn(st, mode).view, path |-> Drawn(st, mode).path]

(***************************************************************************)
(* The worker thread: compute_diff_data, send, request_repaint             *)
(***************************************************************************)
\* A mutation of NextPc: the closure requests the repaint before it sends.
NextPc_repaint_first(pc) ==
    CASE pc = "compute" -> "repaint"
      [] pc = "repaint" -> "send"
      [] OTHER -> "done"

\* The order of the statements of the closure: compute_diff_data, send,
\* request_repaint, end.
NextPc(pc) ==
    CASE pc = "compute" -> "send"
      [] pc = "send" -> "repaint"
      [] OTHER -> "done"

\* What compute_diff_data can return to the worker of each file, over what the
\* file system, jj and the tokenizer answer.
WorkerResults ==
    [file \in Files |->
        UNION {compute_diff_data(file.path, file.status, ext) : ext \in WorkerExternals}]

\* let data = compute_diff_data(&path, &status);
WorkerCompute(w) ==
    /\ workers[w].pc = "compute"
    /\ \E data \in WorkerResults[[path |-> workers[w].path, status |-> workers[w].status]] :
          workers' = [workers EXCEPT ![w].pc = NextPc("compute"), ![w].data = Some(data)]
    /\ UNCHANGED <<state, receiver, chan, repaint, shown, inval, diff_view_mode, uiCalls>>

\* compute_diff_data panics: the thread unwinds and its sender is dropped unsent.
WorkerPanic(w) ==
    /\ workers[w].pc = "compute"
    /\ workers' = [workers EXCEPT ![w].pc = "panicked"]
    /\ UNCHANGED <<state, receiver, chan, repaint, shown, inval, diff_view_mode, uiCalls>>

\* let _ = sender.send(data): the data moves into the channel, or is dropped with
\* the Err when the receiver was dropped.  `late` is history: a worker dispatched
\* after this one had already sent.
SendEffect(w) ==
    LET ch == workers[w].ch
        order == \E v \in (w + 1)..Len(workers) : workers[v].sent # "no"
    IN  IF chan[ch].rx
        THEN /\ chan' = [chan EXCEPT ![ch].buf =
                            Append(@, [data |-> Unwrap(workers[w].data), by |-> w])]
             /\ workers' = [workers EXCEPT ![w].pc = NextPc("send"), ![w].data = None, ![w].sent = "ok",
                                           ![w].late = order]
        ELSE /\ chan' = chan
             /\ workers' = [workers EXCEPT ![w].pc = NextPc("send"), ![w].data = None, ![w].sent = "err",
                                           ![w].late = order]

\* A mutation of WorkerSend in which the thread also stores its result in the
\* viewer's state.
WorkerSend_writes_state(w) ==
    /\ workers[w].pc = "send"
    /\ SendEffect(w)
    /\ state' = Loaded(Unwrap(workers[w].data), w)
    /\ UNCHANGED <<receiver, repaint, shown, inval, diff_view_mode, uiCalls>>

WorkerSend(w) ==
    /\ workers[w].pc = "send"
    /\ SendEffect(w)
    /\ UNCHANGED <<state, receiver, repaint, shown, inval, diff_view_mode, uiCalls>>

\* ctx.request_repaint(); the closure ends and drops the sender.
WorkerRepaint(w) ==
    /\ workers[w].pc = "repaint"
    /\ workers' = [workers EXCEPT ![w].pc = NextPc("repaint")]
    /\ repaint' = TRUE
    /\ UNCHANGED <<state, receiver, chan, shown, inval, diff_view_mode, uiCalls>>

WorkerStep(w) == WorkerCompute(w) \/ WorkerSend(w) \/ WorkerRepaint(w)

(***************************************************************************)
(* The changed-files sidebar                                               *)
(***************************************************************************)
\* A line of `jj st` output: a line of words, or "<status> <path>".
TextLine(words) == [kind |-> "text", words |-> words]
EntryLine(c, path) == [kind |-> "entry", status_char |-> c, path |-> path]

HeaderLine == TextLine(<<"Working", "copy", "changes:">>)
CommitLine == TextLine(<<"Working", "copy", "(@)", ":", "abc">>)
ParentLine == TextLine(<<"Parent", "commit", "(@-):", "def">>)

ReportAB == <<HeaderLine, EntryLine("M", PathA), EntryLine("A", PathB), CommitLine, ParentLine>>
ReportB == <<HeaderLine, EntryLine("C", PathA), EntryLine("A", PathB), CommitLine, ParentLine>>

\* Command::new("jj").args(["st"]).output()
JjStOutcomes ==
    {[spawned |-> FALSE, success |-> FALSE, stdout |-> <<>>],
     [spawned |-> TRUE, success |-> FALSE, stdout |-> ReportAB],
     [spawned |-> TRUE, success |-> TRUE, stdout |-> ReportAB],
     [spawned |-> TRUE, success |-> TRUE, stdout |-> ReportB]}

StartsWithChanges(line) ==
    line.kind = "text" /\ Len(line.words) >= 3
    /\ SubSeq(line.words, 1, 3) = <<"Working", "copy", "changes:">>

StartsWithWorkingCopy(line) ==
    line.kind = "text" /\ Len(line.words) >= 3
    /\ SubSeq(line.words, 1, 2) = <<"Working", "copy">>

StatusOfChar(c) ==
    CASE c = "A" -> Some("Added")
      [] c = "M" -> Some("Modified")
      [] c = "D" -> Some("Deleted")
      [] c = "R" -> Some("Renamed")
      [] OTHER -> None

\* The loop of parse_jj_status.
RECURSIVE parse_loop(_, _, _)
parse_loop(lines, in_changes_section, files) ==
    IF lines = <<>> THEN files
    ELSE LET line == Head(lines)
         IN  IF StartsWithChanges(line) THEN parse_loop(Tail(lines), TRUE, files)
             ELSE IF StartsWithWorkingCopy(line) THEN files
             ELSE IF ~in_changes_section THEN parse_loop(Tail(lines), in_changes_section, files)
             ELSE IF line.kind = "entry" /\ StatusOfChar(line.status_char) # None
                  THEN parse_loop(Tail(lines), in_changes_section,
                                  Append(files, [path |-> line.path,
                                                 status |-> Unwrap(StatusOfChar(line.status_char))]))
                  ELSE parse_loop(Tail(lines), in_changes_section, files)

parse_jj_status(output) == parse_loop(output, FALSE, <<>>)

\* fn fetch_changed_files() -> Vec<ChangedFile>
fetch_changed_files(out) ==
    IF ~out.spawned THEN <<>>
    ELSE IF ~out.success THEN <<>>
    ELSE parse_jj_status(out.stdout)

\* A mutation of cache_refresh that stores the list and leaves `loaded` as it was.
cache_refresh_forgets_loaded(cache, out) ==
    [files |-> fetch_changed_files(out), loaded |-> cache.loaded]

\* ChangedFilesCache::refresh and ::get_files, as the cache they leave.
cache_refresh(cache, out) == [files |-> fetch_changed_files(out), loaded |-> TRUE]
cache_get_files(cache, out) == IF ~cache.loaded THEN cache_refresh(cache, out) ELSE cache

\* The invocations of fetch_changed_files (`jj st`) that a call of refresh and a
\* call of get_files make.
cache_refresh_calls == <<"jj_st">>
cache_get_files_calls(cache) == IF ~cache.loaded THEN cache_refresh_calls ELSE <<>>

\* files.get(i), i counted from 0
VecGet(files, i) == IF i < Len(files) THEN Some(files[i + 1]) ELSE None

\* A mutation of clamp_selection that leaves the selection as it is.
clamp_selection_never(files, selected) == selected

\* Lines 111-114 of changed_files::show: the clamp of the selection.
clamp_selection(files, selected) ==
    IF files # <<>> /\ selected >= Len(files) THEN Len(files) - 1 ELSE selected

\* changed_files::show(ui, cache, selected): click is the item clicked (counted from
\* 0), refresh_clicked the refresh button, out1 and out2 what `jj st` returns to the
\* first get_files and to refresh.
sidebar_show(cache, selected, click, refresh_clicked, out1, out2) ==
    LET c1 == cache_get_files(cache, out1)
        sel1 == IF click # None THEN Unwrap(click) ELSE selected
        c2 == IF refresh_clicked THEN cache_refresh(c1, out2) ELSE c1
        c3 == cache_get_files(c2, out2)
        sel2 == clamp_selection(c3.files, sel1)
    IN  [cache |-> c3, listed |-> c1.files, selected |-> sel2,
         file |-> VecGet(c3.files, sel2), refresh_requested |-> refresh_clicked,
         fetched |-> (~cache.loaded) \/ refresh_clicked]

(***************************************************************************)
(* MyApp::update, one frame in two steps: the sidebar with the             *)
(* invalidation it decides, then the central panel                         *)
(***************************************************************************)
\* The locals of update; `discarded` is history: the state that the frame's
\* invalidate_cache call discarded.
FrameIdle ==
    [pc |-> "idle", prev_selection |-> 0, refresh_requested |-> FALSE, discarded |-> None]

\* Line 70: prev_selection != self.selected_file_idx || refresh_requested
invalidate_due(prev_selection, selected, refresh_requested) ==
    prev_selection # selected \/ refresh_requested

\* Lines 69-72: invalidate the diff cache if the selection changed or a refresh was
\* requested.
maybe_invalidate(due) ==
    IF due THEN invalidate_cache ELSE UNCHANGED <<state, receiver, workers, chan>>

\* Lines 45-72: prev_selection, the sidebar, selected_changed_file,
\* refresh_requested, and the invalidation.
FrameSidebar(click, refresh_clicked, out1, out2) ==
    /\ frame.pc = "idle"
    /\ LET r == sidebar_show(changed_files_cache, selected_file_idx, click,
                             refresh_clicked, out1, out2)
           due == invalidate_due(selected_file_idx, r.selected, r.refresh_requested)
       IN  /\ click # None => Unwrap(click) < Len(r.listed)
           /\ changed_files_cache' = r.cache
           /\ selected_file_idx' = r.selected
           /\ selected_changed_file' = r.file
           /\ maybe_invalidate(due)
           /\ frame' = [pc |-> "show", prev_selection |-> selected_file_idx,
                        refresh_requested |-> r.refresh_requested,
                        discarded |-> IF due THEN Some(state.tag) ELSE None]
           /\ uiCalls' = IF r.fetched THEN uiCalls \cup {"jj_st"} ELSE uiCalls
    /\ repaint' = FALSE
    /\ UNCHANGED <<shown, inval, diff_view_mode, pl, cache_calls>>

\* Lines 74-87: the central panel shows the viewer.
FrameShow(click) ==
    /\ frame.pc = "show"
    /\ show(selected_changed_file, click)
    /\ uiCalls' = uiCalls \cup (IF selected_changed_file = None THEN {}
                                 ELSE ensure_loading_calls(Unwrap(selected_changed_file)))
    /\ frame' = FrameIdle
    /\ UNCHANGED <<shown, inval, selected_file_idx, selected_changed_file,
                   changed_files_cache, pl, cache_calls>>

(***************************************************************************)
(* The specifications                                                      *)
(***************************************************************************)
InitViewer ==
    /\ state = Empty
    /\ receiver = None
    /\ workers = <<>>
    /\ chan = <<>>
    /\ repaint = FALSE
    /\ shown = [file |-> None, branch |-> "none", recv |-> "none", view |-> "never",
                path |-> None]
    /\ inval = [at |-> 0, from |-> "never", path |-> None, inflight |-> {}]
    /\ diff_view_mode = "SideBySide"
    /\ uiCalls = {}

InitApp ==
    /\ selected_file_idx = 0
    /\ selected_changed_file = None
    /\ changed_files_cache = [files |-> <<>>, loaded |-> FALSE]
    /\ frame = FrameIdle
    /\ cache_calls = <<>>

Init == InitViewer /\ InitApp /\ pl = PlIdle

\* A caller of the viewer calls show; shown records what the call drew.
Show(file, click) ==
    /\ show(file, click)
    /\ shown' = Screen(file, state', diff_view_mode')
    /\ UNCHANGED <<inval, uiCalls>>
    /\ UNCHANGED <<selected_file_idx, selected_changed_file, changed_files_cache, frame, pl,
                   cache_calls>>

\* A caller of the viewer calls invalidate_cache; inval records the call: the number
\* of workers dispatched before it, the state it discarded, the workers then in flight.
Invalidate ==
    /\ invalidate_cache
    /\ inval' = [at |-> Len(workers), from |-> state.tag, path |-> TrackedPath(state),
                 inflight |-> InFlight]
    /\ UNCHANGED <<repaint, shown, diff_view_mode, uiCalls, selected_file_idx,
                   selected_changed_file, changed_files_cache, frame, pl, cache_calls>>

Worker(w) ==
    /\ (WorkerCompute(w) \/ WorkerPanic(w) \/ WorkerSend(w) \/ WorkerRepaint(w))
    /\ UNCHANGED <<selected_file_idx, selected_changed_file, changed_files_cache, frame, pl,
                   cache_calls>>

Next ==
    \/ \E file \in {None} \cup {Some(f) : f \in Files}, click \in ViewClicks : Show(file, click)
    \/ Invalidate
    \/ \E w \in 1..Len(workers) : Worker(w)

Spec == Init /\ [][Next]_vars

Clicks == {None} \cup {Some(i) : i \in 0..1}

\* What `jj st` returns to a call; a call that is not made returns nothing.
StOutcomes(called) ==
    IF called THEN JjStOutcomes
    ELSE {[spawned |-> FALSE, success |-> FALSE, stdout |-> <<>>]}

NextApp ==
    \/ \E click \in Clicks, refresh_clicked \in BOOLEAN :
         \E out1 \in StOutcomes(~changed_files_cache.loaded),
            out2 \in StOutcomes(refresh_clicked) :
            FrameSidebar(click, refresh_clicked, out1, out2)
    \/ \E click \in ViewClicks : FrameShow(click)
    \/ \E w \in 1..Len(workers) : Worker(w)

SpecApp == Init /\ [][NextApp]_vars

\* A requested repaint starts a frame, a started frame runs to its end, and a
\* spawned thread that can take a step takes it.
RepaintFrame ==
    /\ repaint
    /\ \E click \in Clicks, refresh_clicked \in BOOLEAN :
         \E out1 \in StOutcomes(~changed_files_cache.loaded),
            out2 \in StOutcomes(refresh_clicked) :
            FrameSidebar(click, refresh_clicked, out1, out2)

WorkerRuns(w) ==
    /\ w <= Len(workers)
    /\ WorkerStep(w)
    /\ UNCHANGED <<selected_file_idx, selected_changed_file, changed_files_cache, frame, pl,
                   cache_calls>>

SpecAppFair ==
    /\ SpecApp
    /\ WF_vars(RepaintFrame)
    /\ WF_vars(\E click \in ViewClicks : FrameShow(click))
    /\ \A w \in 1..MaxDispatch : WF_vars(WorkerRuns(w))

InitDiff ==
    /\ InitViewer
    /\ InitApp
    /\ pl \in {PlStart(path, status) : path \in Paths, status \in FileStatus}

NextDiff ==
    /\ (PlResolve \/ PlDiff \/ PlSyntax \/ PlRenderInline \/ PlSplit \/ PlRenderOld
        \/ PlRenderNew)
    /\ UNCHANGED <<state, receiver, workers, chan, repaint, shown, inval, diff_view_mode,
                   selected_file_idx, selected_changed_file, changed_files_cache, frame,
                   uiCalls, cache_calls>>

SpecDiff == InitDiff /\ [][NextDiff]_vars

\* The number of calls one behaviour of SpecCache makes on the cache.
MaxCalls == 4

\* The `jj st` run failed: not spawned, or ended with a failure status.
StFailed(out) == ~out.spawned \/ ~out.success

\* A caller calls cache.get_files(); cache_calls records the call, the `jj st`
\* invocations it made, whether the run failed, and the list it returned.
GetFiles(out) ==
    /\ Len(cache_calls) < MaxCalls
    /\ changed_files_cache' = cache_get_files(changed_files_cache, out)
    /\ cache_calls' = Append(cache_calls,
           [op |-> "get_files",
            fetches |-> Len(cache_get_files_calls(changed_files_cache)),
            failed |-> cache_get_files_calls(changed_files_cache) # <<>> /\ StFailed(out),
            returned |-> changed_files_cache'.files])
    /\ UNCHANGED <<state, receiver, workers, chan, repaint, shown, inval, diff_view_mode,
                   selected_file_idx, selected_changed_file, frame, uiCalls, pl>>

\* A caller calls cache.refresh().
Refresh(out) ==
    /\ Len(cache_calls) < MaxCalls
    /\ changed_files_cache' = cache_refresh(changed_files_cache, out)
    /\ cache_calls' = Append(cache_calls,
           [op |-> "refresh",
            fetches |-> Len(cache_refresh_calls),
            failed |-> StFailed(out),
            returned |-> changed_files_cache'.files])
    /\ UNCHANGED <<state, receiver, workers, chan, repaint, shown, inval, diff_view_mode,
                   selected_file_idx, selected_changed_file, frame, uiCalls, pl>>

NextCache ==
    \/ \E out \in StOutcomes(~changed_files_cache.loaded) : GetFiles(out)
    \/ \E out \in JjStOutcomes : Refresh(out)

SpecCache == Init /\ [][NextCache]_vars

(***************************************************************************)
(* Properties of the viewer as a component (Spec)                          *)
(***************************************************************************)
LastWorker == Len(workers)

\* The step is a show call for `file`.
ShowStep(file) == \E click \in ViewClicks : Show(Some(file), click)

\* C1: when file A is selected and then file B before A's worker W1 has completed,
\* the result of W1 is never installed into the state; and with B still selected,
\* the show call that follows the send of B's worker W2 leaves Loaded with W2's
\* result for B.
C1_StaleNeverInstalled ==
    /\ [](\A w1 \in 1..MaxDispatch, w2 \in 1..MaxDispatch :
            (w1 < w2 /\ w2 <= Len(workers) /\ workers[w1].path # workers[w2].path)
                => ~(state.tag = "Loaded" /\ state.by = w1))
    /\ [][\A file \in Files :
            (/\ Len(workers) >= 2
             /\ workers[LastWorker].path = file.path
             /\ workers[LastWorker - 1].path # file.path
             /\ workers[LastWorker].sent = "ok"
             /\ state = Loading(file.path)
             /\ ShowStep(file))
                => (/\ state'.tag = "Loaded"
                    /\ state'.by = LastWorker
                    /\ state'.data.path = file.path)]_vars

\* A was selected, then B; W2 sent first and was installed by a show of B; W1 sent
\* afterwards into its disconnected channel and ended.
C1_Witness ==
    /\ Len(workers) = 2
    /\ workers[1].path # workers[2].path
    /\ inval.from = "never"
    /\ state.tag = "Loaded" /\ state.by = 2 /\ state.data.path = workers[2].path
    /\ shown.branch = "installed"
    /\ workers[1].pc = "done" /\ workers[1].sent = "err" /\ workers[1].late

\* C2: a step that installs a result starts in Loading; the installed result has the
\* path of the Loading it replaces, comes from the most recent dispatch, and arrives
\* through the receiver held at that moment; so no result of a superseded worker
\* replaces a newer Loading or Loaded.
C2_InstallOnlyLatest ==
    [][(state' # state /\ state'.tag = "Loaded")
          => (/\ state.tag = "Loading"
              /\ state'.data.path = state.path
              /\ state'.by = LastWorker
              /\ workers[state'.by].path = state.path
              /\ receiver = Some(workers[state'.by].ch)
              /\ \A w \in 1..(LastWorker - 1) : state'.by # w)]_vars

\* Two workers for the same path: the first was superseded and ended, the result
\* of the second is installed.
C2_Witness ==
    /\ Len(workers) = 2
    /\ workers[1].path = workers[2].path
    /\ workers[1].pc = "done" /\ workers[1].sent = "err"
    /\ state.tag = "Loaded" /\ state.by = 2

\* C3: invalidate_cache called while Loaded(X) leaves Empty; as long as nothing is
\* dispatched after an invalidation the state stays Empty, whatever the workers
\* that were in flight do; and a Loaded state always holds the result of a worker
\* dispatched after the last invalidation.
C3_InvalidateDiscards ==
    /\ []((inval.from # "never" /\ Len(workers) = inval.at) => state = Empty)
    /\ [](state.tag = "Loaded" => (state.by > inval.at /\ state.by \notin inval.inflight))
    /\ [][(Invalidate /\ state.tag = "Loaded") => state' = Empty]_vars

\* Loaded(X) was invalidated while a worker for X was in flight; that worker has
\* since completed, and the state is Empty.
C3_Witness ==
    /\ inval.from = "Loaded"
    /\ Len(workers) = inval.at
    /\ state = Empty
    /\ \E w \in inval.inflight :
          /\ Some(workers[w].path) = inval.path
          /\ workers[w].pc = "done"

\* C5: a show call for a file with path p, in Empty or in Loading/Loaded for another
\* path, dispatches exactly one worker for p, leaves Loading(p), holds the receiver
\* of the new worker's channel and has dropped the receiver it held; the workers
\* dispatched before continue as they were, and a result sent into a dropped
\* receiver is never the state.
C5_DispatchOnNewPath ==
    /\ [][\A file \in Files :
            (TrackedPath(state) # Some(file.path) /\ ShowStep(file))
                => (/\ Len(workers') = Len(workers) + 1
                    /\ SubSeq(workers', 1, Len(workers)) = workers
                    /\ workers'[Len(workers')].path = file.path
                    /\ workers'[Len(workers')].status = file.status
                    /\ workers'[Len(workers')].pc = "compute"
                    /\ state' = Loading(file.path)
                    /\ receiver' = Some(workers'[Len(workers')].ch)
                    /\ receiver' # receiver
                    /\ chan'[Unwrap(receiver')].rx
                    /\ receiver # None => ~chan'[Unwrap(receiver)].rx)]_vars
    /\ [](\A w \in 1..MaxDispatch :
            (w <= Len(workers) /\ workers[w].sent = "err")
                => ~(state.tag = "Loaded" /\ state.by = w))

\* B was selected while A was tracked: a second worker was dispatched, Loading(B)
\* is the state, and A's worker completed into its dropped receiver.
C5_Witness ==
    /\ Len(workers) = 2
    /\ inval.from = "never"
    /\ workers[1].path # workers[2].path
    /\ state = Loading(workers[2].path)
    /\ receiver = Some(workers[2].ch)
    /\ shown.branch = "dispatch"
    /\ workers[1].pc = "done" /\ workers[1].sent = "err"

\* C6: a show call for the path of the Loaded data changes nothing of the viewer
\* and dispatches nothing, whichever view mode is clicked; a show call while Loading
\* for the same path dispatches no second worker.
C6_LoadedIsStable ==
    [][\A file \in Files :
          /\ (state.tag = "Loaded" /\ state.data.path = file.path /\ ShowStep(file))
                => UNCHANGED <<state, receiver, workers, chan>>
          /\ (state = Loading(file.path) /\ ShowStep(file))
                => (workers' = workers /\ Len(chan') = Len(chan))]_vars

\* A show call found the data loaded and drew it inline, after the inline mode
\* was chosen.
C6_Witness ==
    /\ state.tag = "Loaded"
    /\ shown.branch = "hit"
    /\ shown.view = "Inline"
    /\ diff_view_mode = "Inline"
    /\ Len(workers) = 1

(***************************************************************************)
(* Properties of the application's frames (SpecApp, SpecAppFair)           *)
(***************************************************************************)
\* The worker whose result the held receiver would deliver.
Delivered(w) ==
    /\ w <= Len(workers)
    /\ workers[w].sent = "ok"
    /\ receiver = Some(workers[w].ch)
    /\ state.tag = "Loading"

\* C4: while Loading(p), once the worker has handed off its result, the next poll
\* leaves Loaded with that result; under fair scheduling of the worker and of
\* repaint-driven frames a handed-off result is eventually installed unless an
\* invalidation intervenes; and a worker requests the repaint only after its send.
C4_HandoffInstalled ==
    /\ [][\A w \in 1..MaxDispatch :
            (Delivered(w) /\ \E click \in ViewClicks : FrameShow(click))
                => (/\ state'.tag = "Loaded"
                    /\ state'.by = w
                    /\ state'.data.path = state.path
                    /\ receiver' = None)]_vars
    /\ [](\A w \in 1..MaxDispatch :
            (w <= Len(workers) /\ workers[w].pc \in {"repaint", "done"})
                => workers[w].sent # "no")
    /\ \A w \in 1..MaxDispatch :
          Delivered(w) ~> ((state.tag = "Loaded" /\ state.by = w) \/ state = Empty)

\* A frame installed the result of a worker that has requested its repaint.
C4_Witness ==
    /\ state.tag = "Loaded"
    /\ frame.pc = "idle"
    /\ workers[state.by].pc = "done"
    /\ workers[state.by].sent = "ok"

\* C7: in every frame in which the selected index changed or a refresh was
\* requested, invalidate_cache has run before show: whatever the state was, it is
\* Empty, no receiver is held and no channel has a live receiver; in every other
\* frame nothing was discarded.
C7_InvalidateBeforeShow ==
    frame.pc = "show" =>
        IF invalidate_due(frame.prev_selection, selected_file_idx, frame.refresh_requested)
        THEN /\ frame.discarded # None
             /\ state = Empty
             /\ receiver = None
             /\ \A ch \in 1..Len(chan) : ~chan[ch].rx
        ELSE frame.discarded = None

\* A refresh was requested in a frame that started in Loaded: the frame is about to
\* show, and the state is Empty.
C7_Witness ==
    /\ frame.pc = "show"
    /\ frame.refresh_requested
    /\ frame.prev_selection = selected_file_idx
    /\ frame.discarded = Some("Loaded")
    /\ state = Empty /\ receiver = None

\* The calls that wait for a process, for the file system or for a message.
BlockingCalls == {"jj_st", "jj_file_show", "fs_read", "recv"}

\* C8: the UI frame makes no blocking call.
C8_FrameNeverBlocks == uiCalls \cap BlockingCalls = {}

(***************************************************************************)
(* Properties of compute_diff_data (SpecDiff)                              *)
(***************************************************************************)
AfterSplit == pl.pc \in {"render_old", "render_new", "done"}

\* C9: in every result of compute_diff_data the old pane and the new pane have the
\* same length, the length of the unified diff.
C9_PanesSameLength ==
    /\ AfterSplit => (/\ Len(pl.old_diff) = Len(pl.diff_lines)
                      /\ Len(pl.new_diff) = Len(pl.diff_lines))
    /\ pl.pc = "done" => (/\ Len(Unwrap(pl.data).old_lines) = Len(pl.diff_lines)
                          /\ Len(Unwrap(pl.data).new_lines) = Len(pl.diff_lines)
                          /\ Len(Unwrap(pl.data).inline_lines) = Len(pl.diff_lines))

\* A result whose unified diff has a deleted and an inserted line.
C9_Witness ==
    /\ pl.pc = "done"
    /\ Len(Unwrap(pl.data).old_lines) >= 2
    /\ \E i \in 1..Len(pl.diff_lines) : pl.diff_lines[i].change_type = "Delete"
    /\ \E i \in 1..Len(pl.diff_lines) : pl.diff_lines[i].change_type = "Insert"

\* C10: position i of the panes comes from unified line i: an Equal line is in both
\* panes as it is; a Delete line is in the old pane as it is, against a placeholder
\* in the new pane; an Insert line is in the new pane as it is, against a
\* placeholder in the old pane; a placeholder has the tag Equal, empty content and
\* no line numbers.
C10_PositionalMapping ==
    AfterSplit =>
        /\ Len(pl.old_diff) = Len(pl.diff_lines)
        /\ Len(pl.new_diff) = Len(pl.diff_lines)
        /\ \A i \in 1..Len(pl.diff_lines) :
              LET line == pl.diff_lines[i]
                  placeholder == [old_line_num |-> None, new_line_num |-> None,
                                  content |-> <<>>, change_type |-> "Equal"]
              IN  CASE line.change_type = "Equal" ->
                          pl.old_diff[i] = line /\ pl.new_diff[i] = line
                    [] line.change_type = "Delete" ->
                          pl.old_diff[i] = line /\ pl.new_diff[i] = placeholder
                    [] line.change_type = "Insert" ->
                          pl.old_diff[i] = placeholder /\ pl.new_diff[i] = line

\* The split of a unified diff with an equal, a deleted and an inserted line
\* that are not blank.
C10_Witness ==
    /\ pl.pc = "render_old"
    /\ \E i, j, k \in 1..Len(pl.diff_lines) :
          /\ pl.diff_lines[i].change_type = "Equal" /\ pl.diff_lines[i].content # <<>>
          /\ pl.diff_lines[j].change_type = "Delete" /\ pl.diff_lines[j].content # <<>>
          /\ pl.diff_lines[k].change_type = "Insert" /\ pl.diff_lines[k].content # <<>>

(***************************************************************************)
(* Properties of compute_diff (SpecDiff)                                   *)
(***************************************************************************)
AfterDiff == pl.pc \notin {"idle", "resolve", "diff"}

\* C11: every line of compute_diff's output has the numbers of its tag: an Equal
\* line an old and a new number, an Insert line only a new number, a Delete line
\* only an old number.
C11_TaggedLineNumbers ==
    AfterDiff =>
        \A i \in 1..Len(pl.diff_lines) :
            LET line == pl.diff_lines[i]
            IN  CASE line.change_type = "Equal" ->
                        line.old_line_num # None /\ line.new_line_num # None
                  [] line.change_type = "Insert" ->
                        line.old_line_num = None /\ line.new_line_num # None
                  [] line.change_type = "Delete" ->
                        line.old_line_num # None /\ line.new_line_num = None

\* An output of compute_diff with a line of each tag.
C11_Witness ==
    /\ pl.pc = "syntax"
    /\ \A tag \in {"Equal", "Insert", "Delete"} :
          \E i \in 1..Len(pl.diff_lines) : pl.diff_lines[i].change_type = tag

\* The lines of a diff that carry an old number, and those that carry a new one.
HasOld(line) == line.old_line_num # None
HasNew(line) == line.new_line_num # None

\* C12: in compute_diff's output the old numbers, over the lines that have one and
\* in sequence order, are 1, 2, 3, ...; so are, independently, the new numbers.
C12_NumbersCountFromOne ==
    AfterDiff =>
        LET olds == SelectSeq(pl.diff_lines, HasOld)
            news == SelectSeq(pl.diff_lines, HasNew)
        IN  /\ \A j \in 1..Len(olds) : olds[j].old_line_num = Some(j)
            /\ \A j \in 1..Len(news) : news[j].new_line_num = Some(j)

\* An output in which the two streams have drifted apart: an Equal line whose old
\* number is not its new number, after a Delete line.
C12_Witness ==
    /\ pl.pc = "syntax"
    /\ \E i, j \in 1..Len(pl.diff_lines) :
          /\ i < j
          /\ pl.diff_lines[i].change_type = "Delete"
          /\ pl.diff_lines[j].change_type = "Equal"
          /\ pl.diff_lines[j].old_line_num = Some(2)
          /\ pl.diff_lines[j].new_line_num = Some(1)

\* C13: the diff of a text against itself has only Equal lines, one for each line
\* of the text and with its content, each with the same old and new number.
C13_SelfDiffAllEqual ==
    (AfterDiff /\ pl.old_content = pl.new_content) =>
        LET lines == tokenize_lines(pl.old_content)
        IN  /\ Len(pl.diff_lines) = Len(lines)
            /\ \A i \in 1..Len(pl.diff_lines) :
                  /\ pl.diff_lines[i].change_type = "Equal"
                  /\ pl.diff_lines[i].old_line_num = Some(i)
                  /\ pl.diff_lines[i].new_line_num = pl.diff_lines[i].old_line_num
                  /\ pl.diff_lines[i].content = trim_end_newlines(lines[i])

\* The diff of a text of two lines against itself.
C13_Witness ==
    /\ pl.pc = "syntax"
    /\ pl.status = "Modified"
    /\ pl.old_content = pl.new_content
    /\ Len(pl.diff_lines) = 2

AfterSplitOf(old, new) == AfterSplit /\ pl.old_content = old /\ pl.new_content = new

\* C14: for old = a, b, c and new = a, x, c, compute_diff yields exactly
\* [Equal(a,1,1), Delete(b,2,-), Insert(x,-,2), Equal(c,3,3)], the deletion before
\* the insertion, and split_for_side_by_side yields the old pane [a, b, blank, c]
\* and the new pane [a, blank, x, c].
C14_ExampleABC ==
    LET a == [old_line_num |-> Some(1), new_line_num |-> Some(1),
              content |-> <<"a">>, change_type |-> "Equal"]
        b == [old_line_num |-> Some(2), new_line_num |-> None,
              content |-> <<"b">>, change_type |-> "Delete"]
        x == [old_line_num |-> None, new_line_num |-> Some(2),
              content |-> <<"x">>, change_type |-> "Insert"]
        c == [old_line_num |-> Some(3), new_line_num |-> Some(3),
              content |-> <<"c">>, change_type |-> "Equal"]
        blank == [old_line_num |-> None, new_line_num |-> None,
                  content |-> <<>>, change_type |-> "Equal"]
    IN  /\ (AfterDiff /\ pl.old_content = TextABC /\ pl.new_content = TextAXC)
              => pl.diff_lines = <<a, b, x, c>>
        /\ AfterSplitOf(TextABC, TextAXC)
              => (pl.old_diff = <<a, b, blank, c>> /\ pl.new_diff = <<a, blank, x, c>>)

\* compute_diff_data has split the diff of a, b, c against a, x, c.
C14_Witness ==
    /\ AfterSplitOf(TextABC, TextAXC)
    /\ Len(pl.diff_lines) = 4
    /\ Len(pl.old_diff) = 4

(***************************************************************************)
(* Properties of the content resolver (SpecDiff)                           *)
(***************************************************************************)
AfterResolve == pl.pc \notin {"idle", "resolve"}

JjCall == [call |-> "jj_file_show", path |-> pl.path]
FsCall == [call |-> "fs_read", path |-> pl.path]
JjSucceeded == pl.jj.spawned /\ pl.jj.success

\* C15: get_file_contents asks the sources of the status: for Added jj is not asked
\* and the old text is empty whatever jj would answer; for Deleted the file is not
\* read, the new text is empty and the old text is what jj printed; for Modified
\* and Renamed the old text is what jj printed for the same path and the new text
\* is the content of the file.
C15_SourcesByStatus ==
    AfterResolve =>
        CASE pl.status = "Added" ->
                /\ pl.calls = <<FsCall>>
                /\ pl.old_content = <<>>
                /\ pl.fs.ok => pl.new_content = pl.fs.text
          [] pl.status = "Deleted" ->
                /\ pl.calls = <<JjCall>>
                /\ pl.new_content = <<>>
                /\ JjSucceeded => pl.old_content = pl.jj.stdout
          [] pl.status \in {"Modified", "Renamed"} ->
                /\ pl.calls = <<JjCall, FsCall>>
                /\ JjSucceeded => pl.old_content = pl.jj.stdout
                /\ pl.fs.ok => pl.new_content = pl.fs.text

\* An Added file while jj would have printed a text.
C15_Witness ==
    /\ pl.pc = "diff"
    /\ pl.status = "Added"
    /\ JjSucceeded /\ pl.jj.stdout # <<>>
    /\ pl.fs.ok /\ pl.new_content # <<>>
    /\ pl.old_content = <<>>

\* The statuses for which get_file_contents reads the file, and asks jj.
ReadsFile == pl.status \in {"Added", "Modified", "Renamed"}
AsksJj == pl.status \in {"Deleted", "Modified", "Renamed"}

\* The stage compute_diff_data is at can be carried out: the sources answer, and
\* the differ has an edit script for the two texts; the other stages only compute.
CanStep ==
    CASE pl.pc = "resolve" -> FsOutcomes # {} /\ JjOutcomes # {}
      [] pl.pc = "diff" -> DiffScripts(pl.old_content, pl.new_content) # {}
      [] OTHER -> pl.pc \in {"syntax", "render_inline", "split", "render_old", "render_new"}

\* C16: no failure of a source becomes an error: a file that cannot be read makes
\* the new text empty, a jj command that does not start or does not succeed makes
\* the old text empty and the file listing empty; every run of compute_diff_data
\* goes on to its end, and ends with a DiffData for its path.
C16_FailuresAbsorbed ==
    /\ (AfterResolve /\ ReadsFile /\ ~pl.fs.ok) => pl.new_content = <<>>
    /\ (AfterResolve /\ AsksJj /\ ~JjSucceeded) => pl.old_content = <<>>
    /\ pl.pc # "done" => CanStep
    /\ pl.pc = "done" =>
          /\ pl.data # None
          /\ DOMAIN Unwrap(pl.data) = {"path", "inline_lines", "old_lines", "new_lines"}
          /\ Unwrap(pl.data).path = pl.path
    /\ \A out \in JjStOutcomes :
          ~(out.spawned /\ out.success) => fetch_changed_files(out) = <<>>

\* A run for a Modified file for which the file could not be read and jj ended
\* without success after printing: it ended with a DiffData of no lines.
C16_Witness ==
    /\ pl.pc = "done"
    /\ pl.status = "Modified"
    /\ ~pl.fs.ok
    /\ pl.jj.spawned /\ ~pl.jj.success /\ pl.jj.stdout # <<>>
    /\ Unwrap(pl.data).path = pl.path
    /\ Unwrap(pl.data).inline_lines = <<>>

(***************************************************************************)
(* Properties of the renderer (SpecDiff)                                   *)
(***************************************************************************)
\* The text of the spans of a rendered line, put together.
SpanText(rendered) == Concat([i \in 1..Len(rendered.spans) |-> rendered.spans[i].text])

\* Every rendered line has, in its spans, the content of the line it renders.
Reconstructs(rendered_lines, lines) ==
    /\ Len(rendered_lines) = Len(lines)
    /\ \A i \in 1..Len(lines) : SpanText(rendered_lines[i]) = lines[i].content

AfterRenderInline == pl.pc \in {"split", "render_old", "render_new", "done"}

\* C17: for every line given to render_lines, whether its tokenization succeeded or
\* failed, the texts of the spans of its rendered line, put together, are the
\* content of the line.
C17_SpansReconstructContent ==
    /\ AfterRenderInline => Reconstructs(pl.inline_lines, pl.diff_lines)
    /\ pl.pc \in {"render_new", "done"} => Reconstructs(pl.old_lines, pl.old_diff)
    /\ pl.pc = "done" => Reconstructs(pl.new_lines, pl.new_diff)

\* C18: a line whose tokenization fails is rendered as one span with the whole
\* content of the line in the foreground colour of the theme, and the lines after
\* it are rendered.
C18_FailedLineIsOneSpan ==
    AfterRenderInline =>
        /\ Len(pl.inline_lines) = Len(pl.diff_lines)
        /\ \A i \in 1..Len(pl.diff_lines) :
              pl.diff_lines[i].content \in pl.tokFail
                  => pl.inline_lines[i].spans =
                        <<[text |-> pl.diff_lines[i].content, color |-> ThemeForeground]>>

\* The path has no extension, or one for which the syntax set has no grammar.
NoGrammarForPath == extension(pl.path) \notin KnownExtensions

\* C19: for a path without a known extension compute_diff_data takes the
\* plain-text grammar, and ends with a DiffData whose spans have the content of
\* the lines.
C19_PlainTextFallback ==
    NoGrammarForPath =>
        /\ pl.pc \in {"render_inline", "split", "render_old", "render_new", "done"}
              => pl.syntax = "Plain Text"
        /\ pl.pc # "done" => CanStep
        /\ pl.pc = "done" =>
              /\ Reconstructs(Unwrap(pl.data).inline_lines, pl.diff_lines)
              /\ Reconstructs(Unwrap(pl.data).old_lines, pl.old_diff)
              /\ Reconstructs(Unwrap(pl.data).new_lines, pl.new_diff)

(***************************************************************************)
(* Properties of the sidebar (SpecApp)                                     *)
(***************************************************************************)
\* The list the sidebar holds once a sidebar frame has run.
ListedFiles == changed_files_cache.files
SelectionValid ==
    /\ selected_file_idx < Len(ListedFiles)
    /\ selected_changed_file = Some(ListedFiles[selected_file_idx + 1])

\* C20 as stated: after every sidebar frame the selection index is a valid index
\* into the current list and the selected file is the file at that index.
C20_SelectionAlwaysValid == changed_files_cache.loaded => SelectionValid

\* C20, amended: after every sidebar frame, if the list is not empty the selection
\* index is a valid index into it and the selected file is the file at that index;
\* if the list is empty no file is selected, whatever the index.
C20_SelectionClamped ==
    changed_files_cache.loaded =>
        IF ListedFiles # <<>> THEN SelectionValid ELSE selected_changed_file = None

\* A refresh shrank the list from two files to one while the second was selected:
\* the frame has moved the selection to the one file left.
C20_Witness ==
    /\ frame.pc = "show"
    /\ frame.refresh_requested
    /\ frame.prev_selection = 1
    /\ Len(ListedFiles) = 1
    /\ selected_file_idx = 0
    /\ selected_changed_file = Some(ListedFiles[1])

(***************************************************************************)
(* Properties of the changed-files cache (SpecCache)                       *)
(***************************************************************************)
\* C21: over any sequence of get_files and refresh calls, `jj st` is invoked once
\* by every refresh and once by a get_files that is the first call of all, and by
\* no other get_files, also after a fetch that failed and left an empty list; a
\* get_files that does not fetch returns the list the call before it left.
C21_FetchOnlyOnFirstCall ==
    \A i \in 1..Len(cache_calls) :
        /\ cache_calls[i].fetches =
              IF cache_calls[i].op = "refresh" \/ i = 1 THEN 1 ELSE 0
        /\ (cache_calls[i].op = "get_files" /\ i > 1)
              => cache_calls[i].returned = cache_calls[i - 1].returned

\* The first get_files ran a failing `jj st` and returned the empty list; the
\* get_files after it fetched nothing and returned the empty list; a refresh
\* then fetched a list of two files, and the get_files after it fetched nothing.
C21_Witness ==
    /\ Len(cache_calls) = 4
    /\ cache_calls[1] = [op |-> "get_files", fetches |-> 1, failed |-> TRUE, returned |-> <<>>]
    /\ cache_calls[2] = [op |-> "get_files", fetches |-> 0, failed |-> FALSE, returned |-> <<>>]
    /\ cache_calls[3].op = "refresh" /\ Len(cache_calls[3].returned) = 2
    /\ cache_calls[4].op = "get_files" /\ cache_calls[4].fetches = 0
    /\ changed_files_cache.files = cache_calls[3].returned

(***************************************************************************)
(* The order of the stages of one compute_diff_data run (SpecDiff)         *)
(***************************************************************************)
\* The position of a stage among the finished stages, 0 while it has not finished.
StagePos(stage) ==
    IF \E i \in 1..Len(pl.trace) : pl.trace[i] = stage
    THEN CHOOSE i \in 1..Len(pl.trace) : pl.trace[i] = stage
    ELSE 0

\* Stage a has finished before stage b starts.
FinishesBefore(a, b) == StagePos(b) > 0 => (StagePos(a) > 0 /\ StagePos(a) < StagePos(b))

\* C22, as stated: resolution finishes before diffing, diffing before splitting,
\* and splitting before any rendering, of the unified sequence or of either pane.
C22_SplitBeforeAllRendering ==
    /\ FinishesBefore("resolve", "diff")
    /\ FinishesBefore("diff", "split")
    /\ FinishesBefore("split", "render_inline")
    /\ FinishesBefore("split", "render_old")
    /\ FinishesBefore("split", "render_new")

\* C22, amended: resolution finishes before diffing; diffing finishes before the
\* unified sequence is rendered and before splitting; the unified sequence is
\* rendered before splitting starts, from the diff lines alone; splitting
\* finishes before either pane is rendered; a finished run ran every stage once.
C22_StagesInSourceOrder ==
    /\ FinishesBefore("resolve", "diff")
    /\ FinishesBefore("diff", "render_inline")
    /\ FinishesBefore("diff", "split")
    /\ FinishesBefore("render_inline", "split")
    /\ FinishesBefore("split", "render_old")
    /\ FinishesBefore("split", "render_new")
    /\ \A i, j \in 1..Len(pl.trace) : pl.trace[i] = pl.trace[j] => i = j
    /\ pl.pc = "split" =>
          /\ pl.inline_lines = render_lines(pl.diff_lines, pl.syntax, pl.tokFail)
          /\ pl.old_diff = <<>> /\ pl.new_diff = <<>>
    /\ pl.pc = "done" =>
          /\ Len(pl.trace) = 7
          /\ Unwrap(pl.data).old_lines = render_lines(pl.old_diff, pl.syntax, pl.tokFail)
          /\ <<pl.old_diff, pl.new_diff>> = split_for_side_by_side(pl.diff_lines)

\* The unified sequence of a two-line diff is rendered and nothing is split yet.
C22_Witness ==
    /\ pl.pc = "split"
    /\ Len(pl.inline_lines) = 2
    /\ pl.inline_lines[1].spans # <<>>
    /\ StagePos("render_inline") = 4
    /\ StagePos("split") = 0

(***************************************************************************)
(* The viewer's state slot and its receiver (Spec)                         *)
(***************************************************************************)
\* The step is a call of the presentation loop into the viewer.
ViewerCall ==
    \/ Invalidate
    \/ \E file \in {None} \cup {Some(f) : f \in Files}, click \in ViewClicks : Show(file, click)

\* C23: no step of a worker thread (compute, panic, send, request_repaint) changes
\* DiffViewer.state or DiffViewer.receiver: a step that changes either of them is
\* a step of no worker, and is a show or invalidate_cache call.
C23_WorkersLeaveStateAlone ==
    [][(state' # state \/ receiver' # receiver)
          => (/\ \A w \in 1..MaxDispatch : ~(w <= Len(workers) /\ Worker(w))
              /\ ViewerCall)]_vars

\* A worker has computed, sent into the held receiver's channel, requested the
\* repaint and ended, and no show call has run a poll since: the state is still
\* Loading and the receiver still held, with the result in the channel.
C23_Witness ==
    /\ Len(workers) = 1
    /\ workers[1].pc = "done" /\ workers[1].sent = "ok"
    /\ repaint
    /\ state = Loading(workers[1].path)
    /\ receiver = Some(workers[1].ch)
    /\ Len(chan[workers[1].ch].buf) = 1
    /\ shown.branch = "dispatch"

\* C24: every show call with a selected file f leaves the state Loading(f.path)
\* or Loaded with data whose path is f.path, never Empty and never another path;
\* it draws the spinner exactly when it leaves Loading, and a diff it draws is
\* the diff of f.
C24_StateTracksSelection ==
    [][\A file \in Files :
          ShowStep(file)
              => (/\ \/ state' = Loading(file.path)
                     \/ (state'.tag = "Loaded" /\ state'.data.path = file.path)
                  /\ shown'.file = Some(file)
                  /\ (shown'.view = "spinner") = (state'.tag = "Loading")
                  /\ shown'.view # "spinner" => shown'.path = Some(file.path))]_vars

\* One file was selected and its worker dispatched, the cache was invalidated,
\* the other file was selected, its worker completed, and the show call that
\* followed installed and drew its diff.
C24_Witness ==
    /\ Len(workers) = 2
    /\ workers[1].path # workers[2].path
    /\ inval.at = 1
    /\ state.tag = "Loaded" /\ state.by = 2
    /\ shown.branch = "installed"
    /\ shown.file # None
    /\ Unwrap(shown.file).path = state.data.path
    /\ shown.path = Some(workers[2].path)

\* The worker dispatched for the Loading state ended without sending: it
\* panicked, and its sender was dropped unsent.
WorkerLost(file) ==
    /\ state = Loading(file.path)
    /\ receiver # None
    /\ Len(workers) > 0
    /\ workers[LastWorker].ch = Unwrap(receiver)
    /\ workers[LastWorker].pc = "panicked"

\* C25: once the worker dispatched for Loading(p) has ended without sending, the
\* poll of a show call with p selected finds the channel disconnected and
\* changes nothing: the state stays Loading(p), the receiver stays held, no
\* worker is dispatched and the spinner is drawn; while nothing invalidates or
\* selects another file, every step leaves Loading(p), and the result of a
\* worker that ended unsent is never the state.
C25_LostWorkerLeavesLoading ==
    /\ [][\A file \in Files :
            (WorkerLost(file) /\ ShowStep(file))
                => (/\ UNCHANGED <<state, receiver, workers, chan>>
                    /\ shown'.recv = "Disconnected"
                    /\ shown'.branch = "pending"
                    /\ shown'.view = "spinner")]_vars
    /\ [][\A file \in Files :
            (WorkerLost(file) /\ state' # state)
                => (Invalidate \/ \E other \in Files \ {file} : ShowStep(other))]_vars
    /\ [](state.tag = "Loaded" => workers[state.by].pc # "panicked")

\* The only worker panicked, and the show call after that polled the
\* disconnected channel: Loading is still the state and the receiver still held.
C25_Witness ==
    /\ Len(workers) = 1
    /\ workers[1].pc = "panicked"
    /\ shown.recv = "Disconnected"
    /\ shown.branch = "pending"
    /\ state = Loading(workers[1].path)
    /\ receiver = Some(workers[1].ch)

\* The channels whose receiver has not been dropped.
LiveChannels == {ch \in 1..Len(chan) : chan[ch].rx}

\* C26: between operations a receiver is held exactly when the state is Loading;
\* the held receiver is that of the channel created by the latest dispatch, which
\* is the dispatch for the Loading path; no other channel has a live receiver,
\* so at most one worker holds a sender through which a result can be delivered.
C26_ReceiverIffLoading ==
    /\ (receiver # None) = (state.tag = "Loading")
    /\ state.tag = "Loading" =>
          /\ Len(workers) > 0
          /\ receiver = Some(workers[LastWorker].ch)
          /\ workers[LastWorker].path = state.path
    /\ LiveChannels = (IF receiver = None THEN {} ELSE {Unwrap(receiver)})
    /\ Cardinality({w \in 1..Len(workers) : chan[workers[w].ch].rx}) <= 1

\* Two workers are computing; only the channel of the second, dispatched for the
\* Loading path, has a receiver, and it is the one held.
C26_Witness ==
    /\ Len(workers) = 2
    /\ workers[1].pc = "compute" /\ workers[2].pc = "compute"
    /\ state = Loading(workers[2].path)
    /\ receiver = Some(workers[2].ch)
    /\ ~chan[workers[1].ch].rx
    /\ workers[1].ch # workers[2].ch

====
